---- MODULE Spec2Model ----
(***************************************************************************)
(* Model of src/index.js of the MNIST drawing demo: the freehand drawing   *)
(* handlers registered with ui.setCanvasInput (activateDraw, the debounced *)
(* deactivateDrawAndPredict, draw, clear), and the Train / Load / Predict  *)
(* button callbacks that own the module-level `model` and `data`.          *)
(*                                                                         *)
(* Time is counted in ticks of 100 ms.  A raster is the set of its ink     *)
(* pixels (alpha > 0) together with its width and height.                  *)
(***************************************************************************)
EXTENDS Integers, Sequences, FiniteSets

\* ---------------------------------------------------------------- bounds
\* Total number of points recorded over all strokes of a session.
MaxPoints == 3
\* Number of draw-triggered inferences started over a run.
MaxInfer == 2
\* The same two bounds where a Train callback runs beside the drawing session.
MaxSessionPoints == 2
MaxSessionInfer == 1
\* Number of Train / Load button clicks over a run.
MaxTasks == 2
\* Largest step between the alpha values of neighbouring pixels of the
\* scaled rasters the encoding is tried on.
MaxAlphaStep == 9
\* Width and height of the input canvas, in pixels of the model.
CanvasSize == 3

\* ------------------------------------------------------------- constants
\* _.debounce(..., 200): 200 ms = 2 ticks.
DEBOUNCE_WAIT == 2
\* The scaled canvas is 28 x 28.
IMAGE_SIZE == 28

\* Coordinates mathUtils.getCoordinates(e) can return.
Points == {<<0, 0>>, <<2, 2>>}
\* JavaScript's undefined, as read past the end of an array.
Undefined == <<>>

NoTimer == -1

VARIABLES
  strokes,       \* canvas_store.strokes
  drawing,       \* canvas_store.drawing
  canvas,        \* ink pixels of #input-canvas
  cropCanvas,    \* raster of #input-canvas-centercrop
  scaledCanvas,  \* ink pixels of #input-canvas-scaled
  timer,         \* ticks until the debounced handler runs, or NoTimer
  upCanvas,      \* the input canvas as it was at the last pointer-up
  nInfer,        \* draw-triggered model.predict calls so far
  inflight,      \* inferences awaiting output.data()
  displayed,     \* the inference last passed to ui.updatePredict
  pressed,       \* the pointer is down: the last of pointer-down / -up was a down
  downSince,     \* a pointer-down occurred since the last clear and the last
                 \* run of the debounced handler that reached model.predict
  pixels,        \* imageDataScaled.data while the handler encodes it, else <<>>
  input,         \* the handler's input array once encoded, else <<>>
  lastEvent,     \* the handler that ran last, and how it ended
  modelTypeSel,  \* ui.getModelTypeId(): the selected model type
  model,         \* the module-level model
  data,          \* the module-level data: the task that created it, 0 if none
  tasks,         \* the Train / Load callbacks started, by click order
  modelStatus,   \* per task, the state of the model its createModel() made
  dataLoaded,    \* per task, whether its MnistData has finished loading
  storage        \* the model type saved under each indexeddb key

drawVars == <<strokes, drawing, canvas, cropCanvas, scaledCanvas, timer,
              upCanvas, nInfer, inflight, displayed, pressed, downSince>>
encVars == <<pixels, input>>
mlVars == <<modelTypeSel, model, data, tasks, modelStatus, dataLoaded, storage>>
vars == <<strokes, drawing, canvas, cropCanvas, scaledCanvas, timer, upCanvas,
          nInfer, inflight, displayed, pressed, downSince, pixels, input,
          lastEvent, modelTypeSel, model, data, tasks, modelStatus, dataLoaded, storage>>

\* ------------------------------------------------------------ mathUtils
\* mathUtils.getMidpoint(p1, p2)
GetMidpoint(p1, p2) ==
  IF p1 = Undefined \/ p2 = Undefined THEN Undefined
  ELSE <<(p1[1] + p2[1]) \div 2, (p1[2] + p2[2]) \div 2>>

\* points[i] of a JavaScript array (0-based), undefined out of range
At(points, i) == IF i + 1 \in DOMAIN points THEN points[i + 1] ELSE Undefined

SetMin(S) == CHOOSE x \in S : \A y \in S : x <= y
SetMax(S) == CHOOSE x \in S : \A y \in S : x >= y

BlankImage(w, h) == [w |-> w, h |-> h, px |-> {}]

\* What mathUtils.centerCrop may return for a canvas without ink: the whole
\* canvas, or a sentinel that is no ImageData.
Sentinel == [w |-> 0, h |-> 0, px |-> {}]
BlankCrops(img) == {img, Sentinel}

\* mathUtils.centerCrop(imageData) for a canvas with ink: the tight
\* bounding box of the ink, moved to the origin.
CenterCrop(img) ==
  LET xs == {p[1] : p \in img.px}
      ys == {p[2] : p \in img.px}
  IN [w  |-> SetMax(xs) - SetMin(xs) + 1,
      h  |-> SetMax(ys) - SetMin(ys) + 1,
      px |-> {<<p[1] - SetMin(xs), p[2] - SetMin(ys)>> : p \in img.px}]

\* ---------------------------------------------------------------- draw
\* The loop of draw over the points of one stroke (i is the loop index),
\* followed by the closing lineTo; acc is the path emitted so far.
RECURSIVE DrawLoop(_, _, _, _, _)
DrawLoop(points, i, p1, p2, acc) ==
  IF i < Len(points)
    THEN DrawLoop(points, i + 1, At(points, i), At(points, i + 1),
                  Append(acc, <<"Q", p1, GetMidpoint(p1, p2)>>))
    ELSE Append(acc, <<"L", p1>>)

\* draw entering the loop with p1 = points[1] and p2 = points[2]
StrokePath_Shifted(points) ==
  DrawLoop(points, 1, At(points, 1), At(points, 2), <<<<"M", At(points, 0)>>>>)

\* The path draw emits for one stroke: beginPath, moveTo, the curves, lineTo.
StrokePath(points) ==
  DrawLoop(points, 1, At(points, 0), At(points, 1), <<<<"M", At(points, 0)>>>>)

\* The point a path command ends on.
EndPoint(cmd) == IF cmd[1] = "Q" THEN cmd[3] ELSE cmd[2]

\* The pixels ctx.stroke() inks for a path.
Ink(path) == {EndPoint(path[k]) : k \in DOMAIN path}

\* draw stroking only the stroke in progress
Render_LastStroke(ss) == Ink(StrokePath(ss[Len(ss)]))

\* The canvas after clearRect and the loop over all strokes.
Render(ss) == UNION {Ink(StrokePath(ss[s])) : s \in DOMAIN ss}

RECURSIVE TotalPoints(_)
TotalPoints(ss) == IF ss = <<>> THEN 0 ELSE Len(Head(ss)) + TotalPoints(Tail(ss))

\* ----------------------------------------------------------- resampling
\* ctxScaled.scale(28 / w, 28 / h); clearRect; drawImage(crop, 0, 0)
Resample(img) ==
  {q \in (0 .. IMAGE_SIZE - 1) \X (0 .. IMAGE_SIZE - 1) :
     <<(q[1] * img.w) \div IMAGE_SIZE, (q[2] * img.h) \div IMAGE_SIZE>> \in img.px}

\* ------------------------------------------------------------- encoding
\* A JavaScript quotient a / b, kept as the pair it is made of.
Div(a, b) == [num |-> a, den |-> b]

\* The RGBA bytes of a 28 x 28 ImageData, row by row: black ink whose alpha
\* starts at `base` and grows by `step` from one pixel to the next, modulo 256.
ScaledData(step, base) ==
  [j \in 1 .. 4 * IMAGE_SIZE * IMAGE_SIZE |->
     IF j % 4 = 0 THEN (step * ((j \div 4) - 1) + base) % 256 ELSE 0]

AlphaBases == {0, 1, 127, 128, 254, 255}

ScaledDatas == {ScaledData(step, base) : step \in 0 .. MaxAlphaStep, base \in AlphaBases}

\* data[i] of the Uint8ClampedArray `data`, i counted from 0
Byte(d, i) == d[i + 1]

\* the entry read from the red byte of the pixel instead of its alpha byte
Entry_Red(d, i) == Div(Byte(d, i), 255)

\* data[i + 3] / 255
Entry(d, i) == Div(Byte(d, i + 3), 255)

\* for (let i = 0, len = data.length; i < len; i += 4): the values i takes
LoopIndices(d) == {i \in 0 .. Len(d) - 1 : i % 4 = 0}

\* `input` after the loop: input[i / 4] = data[i + 3] / 255 for each such i
Encode(d) == [k \in 1 .. Cardinality(LoopIndices(d)) |-> Entry(d, 4 * (k - 1))]

\* How a handler run is recorded: result is "ok", "ignored" (early return),
\* "threw" (an exception left the handler) or "predict" (it called model.predict).
Event(op, result) == [op |-> op, result |-> result]

\* ---------------------------------------------------------------- models
ModelTypes == {"ConvNet", "DenseNet"}
Keys == {"indexeddb://my-model-1", "indexeddb://my-model-2"}
TaskIds == 1 .. MaxTasks

NoModel == [kind |-> "none", type |-> "-", owner |-> 0]
FreeTask == [kind |-> "free", pc |-> "-", modelType |-> "-", saving |-> "-"]

\* createModel(), called by task t: a new model of the selected type.
CreateModel(t) == [kind |-> "created", type |-> modelTypeSel, owner |-> t]

\* The model has been loaded from storage, or its training has completed.
Ready(m) ==
  \/ m.kind = "loaded"
  \/ m.kind = "created" /\ modelStatus[m.owner] = "trained"

\* The key the Train callback saves under, and the Load callback loads.
KeyOf(type) ==
  IF type = "ConvNet" THEN "indexeddb://my-model-1" ELSE "indexeddb://my-model-2"

\* How data.getTrainData() / data.getTestData() on the module-level data can
\* end, dl telling which MnistData objects are loaded: a TypeError when data
\* is undefined; on an MnistData still loading, an exception or tensors made
\* of what is there.
DataReads(dl) ==
  IF data = 0 THEN {"throws"}
  ELSE IF dl[data] THEN {"ok"} ELSE {"throws", "ok"}

Init ==
  /\ strokes = <<>>
  /\ drawing = FALSE
  /\ canvas = {}
  /\ cropCanvas = BlankImage(CanvasSize, CanvasSize)
  /\ scaledCanvas = {}
  /\ timer = NoTimer
  /\ upCanvas = {}
  /\ nInfer = 0
  /\ inflight = {}
  /\ displayed = 0
  /\ pressed = FALSE
  /\ downSince = FALSE
  /\ pixels = <<>>
  /\ input = <<>>
  /\ lastEvent = Event("none", "ok")
  /\ modelTypeSel = "ConvNet"
  /\ model = NoModel
  /\ data = 0
  /\ tasks = [t \in TaskIds |-> FreeTask]
  /\ modelStatus = [t \in TaskIds |-> "absent"]
  /\ dataLoaded = [t \in TaskIds |-> FALSE]
  /\ storage = [k \in Keys |-> "none"]

\* The page as constructed, with the handler about to encode a scaled raster.
InitEncode ==
  /\ strokes = <<>>
  /\ drawing = FALSE
  /\ canvas = {}
  /\ cropCanvas = BlankImage(CanvasSize, CanvasSize)
  /\ scaledCanvas = {}
  /\ timer = NoTimer
  /\ upCanvas = {}
  /\ nInfer = 0
  /\ inflight = {}
  /\ displayed = 0
  /\ pressed = FALSE
  /\ downSince = FALSE
  /\ pixels \in ScaledDatas
  /\ input = <<>>
  /\ lastEvent = Event("none", "ok")
  /\ modelTypeSel = "ConvNet"
  /\ model = NoModel
  /\ data = 0
  /\ tasks = [t \in TaskIds |-> FreeTask]
  /\ modelStatus = [t \in TaskIds |-> "absent"]
  /\ dataLoaded = [t \in TaskIds |-> FALSE]
  /\ storage = [k \in Keys |-> "none"]

\* ------------------------------------------------------- canvas handlers
\* activateDraw that starts the session over instead of appending a stroke
PointerDown_Replacing(p) ==
  /\ TotalPoints(strokes) < MaxPoints
  /\ drawing' = TRUE
  /\ strokes' = <<<<p>>>>
  /\ pressed' = TRUE
  /\ downSince' = TRUE
  /\ lastEvent' = Event("activateDraw", IF drawing THEN "whileDrawing" ELSE "ok")
  /\ UNCHANGED <<canvas, cropCanvas, scaledCanvas, timer, upCanvas, nInfer,
                 inflight, displayed>>
  /\ UNCHANGED mlVars
  /\ UNCHANGED encVars

\* activateDraw that pushes an empty stroke, leaving the point to draw
PointerDown_EmptyStroke(p) ==
  /\ TotalPoints(strokes) < MaxPoints
  /\ drawing' = TRUE
  /\ strokes' = Append(strokes, <<>>)
  /\ pressed' = TRUE
  /\ downSince' = TRUE
  /\ lastEvent' = Event("activateDraw", IF drawing THEN "whileDrawing" ELSE "ok")
  /\ UNCHANGED <<canvas, cropCanvas, scaledCanvas, timer, upCanvas, nInfer,
                 inflight, displayed>>
  /\ UNCHANGED mlVars
  /\ UNCHANGED encVars

\* pointer-down: activateDraw(e)
PointerDown(p) ==
  /\ TotalPoints(strokes) < MaxPoints
  /\ drawing' = TRUE
  /\ strokes' = Append(strokes, <<p>>)
  /\ pressed' = TRUE
  /\ downSince' = TRUE
  /\ lastEvent' = Event("activateDraw", IF drawing THEN "whileDrawing" ELSE "ok")
  /\ UNCHANGED <<canvas, cropCanvas, scaledCanvas, timer, upCanvas, nInfer,
                 inflight, displayed>>
  /\ UNCHANGED mlVars
  /\ UNCHANGED encVars

\* canvas_store.strokes after draw pushed p onto the last stroke
PushPoint(ss, p) == [ss EXCEPT ![Len(ss)] = Append(@, p)]

\* draw without its `if(!canvas_store.drawing) return`
PointerMove_NoGuard(p) ==
  /\ TotalPoints(strokes) < MaxPoints
  /\ IF strokes = <<>>
       THEN /\ canvas' = {}
            /\ lastEvent' = Event("draw", "threw")
            /\ UNCHANGED strokes
       ELSE /\ strokes' = PushPoint(strokes, p)
            /\ canvas' = Render(strokes')
            /\ lastEvent' = Event("draw", "ok")
  /\ UNCHANGED <<drawing, cropCanvas, scaledCanvas, timer, upCanvas, nInfer,
                 inflight, displayed, pressed, downSince>>
  /\ UNCHANGED mlVars
  /\ UNCHANGED encVars

\* pointer-move: draw(e)
PointerMove(p) ==
  /\ drawing => TotalPoints(strokes) < MaxPoints
  /\ IF ~drawing
       THEN /\ lastEvent' = Event("draw", "ignored")
            /\ UNCHANGED <<strokes, canvas>>
       ELSE IF strokes = <<>>
         THEN \* points is undefined: points.push throws after clearRect
              /\ canvas' = {}
              /\ lastEvent' = Event("draw", "threw")
              /\ UNCHANGED strokes
         ELSE /\ strokes' = PushPoint(strokes, p)
              /\ canvas' = Render(strokes')
              /\ lastEvent' = Event("draw", "ok")
  /\ UNCHANGED <<drawing, cropCanvas, scaledCanvas, timer, upCanvas, nInfer,
                 inflight, displayed, pressed, downSince>>
  /\ UNCHANGED mlVars
  /\ UNCHANGED encVars

\* pointer-up: one call of the debounced function, which (re)starts the wait
PointerUp ==
  /\ timer' = DEBOUNCE_WAIT
  /\ upCanvas' = canvas
  /\ pressed' = FALSE
  /\ lastEvent' = Event("pointerUp", "ok")
  /\ UNCHANGED <<strokes, drawing, canvas, cropCanvas, scaledCanvas, nInfer,
                 inflight, displayed, downSince>>
  /\ UNCHANGED mlVars
  /\ UNCHANGED encVars

\* 100 ms pass while a debounced call is pending
Tick ==
  /\ timer > 0
  /\ timer' = timer - 1
  /\ UNCHANGED <<strokes, drawing, canvas, cropCanvas, scaledCanvas, upCanvas,
                 nInfer, inflight, displayed, pressed, downSince, lastEvent>>
  /\ UNCHANGED mlVars
  /\ UNCHANGED encVars

\* ctx.getImageData(0, 0, ctx.canvas.width, ctx.canvas.height)
InputImage == [w |-> CanvasSize, h |-> CanvasSize, px |-> canvas]

\* The results mathUtils.centerCrop can give for the input canvas.
Crops == IF canvas = {} THEN BlankCrops(InputImage) ELSE {CenterCrop(InputImage)}

\* deactivateDrawAndPredict without its `if (!canvas_store.drawing) return`
DeactivateDrawAndPredict_NoGuard ==
  /\ timer = 0
  /\ model.kind # "none" => nInfer < MaxInfer
  /\ timer' = NoTimer
  /\ drawing' = FALSE
  /\ \E crop \in Crops :
       IF crop = Sentinel
         THEN /\ cropCanvas' = BlankImage(0, 0)
              /\ lastEvent' = Event("deactivateDrawAndPredict", "threw")
              /\ UNCHANGED <<scaledCanvas, nInfer, inflight, downSince>>
         ELSE /\ cropCanvas' = crop
              /\ scaledCanvas' = Resample(crop)
              /\ IF model.kind = "none"
                   THEN /\ lastEvent' = Event("deactivateDrawAndPredict", "threw")
                        /\ UNCHANGED <<nInfer, inflight, downSince>>
                   ELSE /\ nInfer' = nInfer + 1
                        /\ inflight' = inflight \cup {nInfer + 1}
                        /\ downSince' = FALSE
                        /\ lastEvent' = Event("deactivateDrawAndPredict", "predict")
  /\ UNCHANGED <<strokes, canvas, upCanvas, displayed, pressed>>
  /\ UNCHANGED mlVars
  /\ UNCHANGED encVars

\* The wait has elapsed: deactivateDrawAndPredict(e) runs up to output.data()
DeactivateDrawAndPredict ==
  /\ timer = 0
  /\ (drawing /\ model.kind # "none") => nInfer < MaxInfer
  /\ timer' = NoTimer
  /\ IF ~drawing
       THEN /\ lastEvent' = Event("deactivateDrawAndPredict", "ignored")
            /\ UNCHANGED <<drawing, cropCanvas, scaledCanvas, nInfer, inflight,
                           downSince>>
       ELSE /\ drawing' = FALSE
            /\ \E crop \in Crops :
                 IF crop = Sentinel
                   THEN \* putImageData rejects what is no ImageData
                        /\ cropCanvas' = BlankImage(0, 0)
                        /\ lastEvent' = Event("deactivateDrawAndPredict", "threw")
                        /\ UNCHANGED <<scaledCanvas, nInfer, inflight, downSince>>
                   ELSE /\ cropCanvas' = crop
                        /\ scaledCanvas' = Resample(crop)
                        /\ IF model.kind = "none"
                             THEN \* model is undefined: model.predict throws
                                  /\ lastEvent' = Event("deactivateDrawAndPredict", "threw")
                                  /\ UNCHANGED <<nInfer, inflight, downSince>>
                             ELSE /\ nInfer' = nInfer + 1
                                  /\ inflight' = inflight \cup {nInfer + 1}
                                  /\ downSince' = FALSE
                                  /\ lastEvent' = Event("deactivateDrawAndPredict", "predict")
  /\ UNCHANGED <<strokes, canvas, upCanvas, displayed, pressed>>
  /\ UNCHANGED mlVars
  /\ UNCHANGED encVars

\* let input = []; the loop over data
EncodeInput ==
  /\ pixels # <<>>
  /\ input = <<>>
  /\ input' = Encode(pixels)
  /\ lastEvent' = Event("encode", "ok")
  /\ UNCHANGED pixels
  /\ UNCHANGED drawVars
  /\ UNCHANGED mlVars

\* output.data() resolves for inference id: ui.updatePredict(out)
UpdatePredict(id) ==
  /\ id \in inflight
  /\ inflight' = inflight \ {id}
  /\ displayed' = id
  /\ lastEvent' = Event("updatePredict", "ok")
  /\ UNCHANGED <<strokes, drawing, canvas, cropCanvas, scaledCanvas, timer,
                 upCanvas, nInfer, pressed, downSince>>
  /\ UNCHANGED mlVars
  /\ UNCHANGED encVars

\* clear without its `canvas_store.drawing = false`
Clear_KeepsDrawing ==
  /\ canvas' = {}
  /\ cropCanvas' = BlankImage(cropCanvas.w, cropCanvas.h)
  /\ scaledCanvas' = {}
  /\ strokes' = <<>>
  /\ downSince' = FALSE
  /\ lastEvent' = Event("clear", "ok")
  /\ UNCHANGED <<drawing, timer, upCanvas, nInfer, inflight, displayed, pressed>>
  /\ UNCHANGED mlVars
  /\ UNCHANGED encVars

\* the clear button: clear()
Clear ==
  /\ canvas' = {}
  /\ cropCanvas' = BlankImage(cropCanvas.w, cropCanvas.h)
  /\ scaledCanvas' = {}
  /\ strokes' = <<>>
  /\ drawing' = FALSE
  /\ downSince' = FALSE
  /\ lastEvent' = Event("clear", "ok")
  /\ UNCHANGED <<timer, upCanvas, nInfer, inflight, displayed, pressed>>
  /\ UNCHANGED mlVars
  /\ UNCHANGED encVars

\* ------------------------------------------------------ button callbacks
\* The task a new click starts: the first one not yet used.
NextTask == CHOOSE t \in TaskIds : tasks[t].kind = "free" /\ \A u \in 1 .. t - 1 : tasks[u].kind # "free"

\* A click on Train or Load: logStatus, then load() up to `await data.load()`
Click(kind) ==
  /\ \E t \in TaskIds : tasks[t].kind = "free"
  /\ tasks' = [tasks EXCEPT ![NextTask] =
                 [kind |-> kind, pc |-> "awaitData", modelType |-> "-", saving |-> "-"]]
  /\ data' = NextTask
  /\ lastEvent' = Event("callback", "ok")
  /\ UNCHANGED <<modelTypeSel, model, modelStatus, dataLoaded, storage>>
  /\ UNCHANGED drawVars
  /\ UNCHANGED encVars

TrainClick == Click("Train")
LoadClick == Click("Load")

\* The user picks another entry of the model type selector.
SelectModelType(ty) ==
  /\ ty # modelTypeSel
  /\ modelTypeSel' = ty
  /\ lastEvent' = Event("select", "ok")
  /\ UNCHANGED <<model, data, tasks, modelStatus, dataLoaded, storage>>
  /\ UNCHANGED drawVars
  /\ UNCHANGED encVars

\* model = createModel(); model.summary(); train(model) up to `await model.fit`,
\* by task t, whose local modelType is mt; train reads the module-level data
\* (dl tells which MnistData objects are loaded).
CreateAndTrain(t, dl, mt) ==
  /\ model' = CreateModel(t)
  /\ \E read \in DataReads(dl) :
       IF read = "ok"
         THEN /\ modelStatus' = [modelStatus EXCEPT ![t] = "training"]
              /\ tasks' = [tasks EXCEPT ![t].pc = "awaitFit", ![t].modelType = mt]
              /\ lastEvent' = Event("callback", "ok")
         ELSE \* data.getTrainData() throws: train rejects, and so the callback
              /\ modelStatus' = [modelStatus EXCEPT ![t] = "created"]
              /\ tasks' = [tasks EXCEPT ![t].pc = "failed", ![t].modelType = mt]
              /\ lastEvent' = Event("callback", "threw")

\* data.load() of task t resolves; the callback continues after `await load()`
DataLoadDone(t) ==
  /\ tasks[t].pc = "awaitData"
  /\ dataLoaded' = [dataLoaded EXCEPT ![t] = TRUE]
  /\ IF tasks[t].kind = "Train"
       THEN CreateAndTrain(t, dataLoaded', modelTypeSel)
       ELSE \* the Load callback starts tf.loadModel for the selected type
            /\ tasks' = [tasks EXCEPT ![t].pc = "awaitLoadModel",
                                       ![t].modelType = modelTypeSel]
            /\ lastEvent' = Event("callback", "ok")
            /\ UNCHANGED <<model, modelStatus>>
  /\ UNCHANGED <<modelTypeSel, data, storage>>
  /\ UNCHANGED drawVars
  /\ UNCHANGED encVars

\* tf.loadModel of task t settles: the stored model, or the catch block
LoadModelDone(t) ==
  /\ tasks[t].pc = "awaitLoadModel"
  /\ IF storage[KeyOf(tasks[t].modelType)] # "none"
       THEN /\ model' = [kind |-> "loaded",
                         type |-> storage[KeyOf(tasks[t].modelType)],
                         owner |-> t]
            /\ tasks' = [tasks EXCEPT ![t].pc = "done"]
            /\ lastEvent' = Event("callback", "ok")
            /\ UNCHANGED modelStatus
       ELSE CreateAndTrain(t, dataLoaded, tasks[t].modelType)
  /\ UNCHANGED <<modelTypeSel, data, dataLoaded, storage>>
  /\ UNCHANGED drawVars
  /\ UNCHANGED encVars

\* The key the callback of task t passes to model.save.
SaveKey(t) ==
  IF tasks[t].kind = "Train" THEN KeyOf(tasks[t].modelType)
  ELSE "indexeddb://my-model-1"

\* model.fit of task t resolves; train returns and the callback calls
\* model.save on the module-level model
FitDone(t) ==
  /\ tasks[t].pc = "awaitFit"
  /\ modelStatus' = [modelStatus EXCEPT ![t] = "trained"]
  /\ tasks' = [tasks EXCEPT ![t].pc = "awaitSave", ![t].saving = model.type]
  /\ lastEvent' = Event("callback", "ok")
  /\ UNCHANGED <<modelTypeSel, model, data, dataLoaded, storage>>
  /\ UNCHANGED drawVars
  /\ UNCHANGED encVars

\* showPredictions(model): data.getTestData, then model.predict in tf.tidy
ShowPredictions(caller) ==
  \E read \in DataReads(dataLoaded) :
    IF read = "throws" \/ model.kind = "none"
      THEN lastEvent' = Event(caller, "threw")
      ELSE lastEvent' = Event(caller, "predict")

\* model.save of task t resolves; the callback ends with showPredictions(model)
SaveDone(t) ==
  /\ tasks[t].pc = "awaitSave"
  /\ storage' = [storage EXCEPT ![SaveKey(t)] = tasks[t].saving]
  /\ tasks' = [tasks EXCEPT ![t].pc = "done"]
  /\ ShowPredictions("callback")
  /\ UNCHANGED <<modelTypeSel, model, data, modelStatus, dataLoaded>>
  /\ UNCHANGED drawVars
  /\ UNCHANGED encVars

\* A click on Predict: showPredictions(model)
PredictClick ==
  /\ ShowPredictions("predictButton")
  /\ UNCHANGED mlVars
  /\ UNCHANGED drawVars
  /\ UNCHANGED encVars

Next ==
  \/ \E p \in Points : PointerDown(p)
  \/ \E p \in Points : PointerMove(p)
  \/ PointerUp
  \/ Tick
  \/ DeactivateDrawAndPredict
  \/ \E id \in 1 .. MaxInfer : UpdatePredict(id)
  \/ Clear
  \/ TrainClick
  \/ LoadClick
  \/ \E ty \in ModelTypes : SelectModelType(ty)
  \/ \E t \in TaskIds : DataLoadDone(t)
  \/ \E t \in TaskIds : LoadModelDone(t)
  \/ \E t \in TaskIds : FitDone(t)
  \/ \E t \in TaskIds : SaveDone(t)
  \/ PredictClick

Spec == Init /\ [][Next]_vars

\* The canvas handlers read nothing of the button callbacks' state but
\* `model`, and the callbacks read and write nothing of the canvas.  The
\* drawing session is therefore explored with one Train callback beside it
\* (the model is absent, in training, then trained), and the callbacks are
\* explored, all of them and overlapping, with the canvas left alone.
FirstTrainClick == tasks[1].kind = "free" /\ TrainClick

NextCanvas ==
  \/ \E p \in Points : TotalPoints(strokes) < MaxSessionPoints /\ PointerDown(p)
  \/ \E p \in Points : /\ drawing => TotalPoints(strokes) < MaxSessionPoints
                       /\ PointerMove(p)
  \/ PointerUp
  \/ Tick
  \/ /\ (drawing /\ model.kind # "none") => nInfer < MaxSessionInfer
     /\ DeactivateDrawAndPredict
  \/ \E id \in 1 .. MaxInfer : UpdatePredict(id)
  \/ Clear
  \/ FirstTrainClick
  \/ DataLoadDone(1)
  \/ FitDone(1)
  \/ SaveDone(1)

SpecCanvas == Init /\ [][NextCanvas]_vars

\* The encoding loop of the debounced handler on its own.
NextEncode == EncodeInput

SpecEncode == InitEncode /\ [][NextEncode]_vars

\* The drawing session alone: no button is clicked, so `model` stays
\* undefined and every run of the debounced handler ends at model.predict.
NextStrokes ==
  \/ \E p \in Points : PointerDown(p)
  \/ \E p \in Points : PointerMove(p)
  \/ PointerUp
  \/ Tick
  \/ DeactivateDrawAndPredict
  \/ Clear

SpecStrokes == Init /\ [][NextStrokes]_vars

\* The drawing session beside one Train callback, long enough for two
\* draw-triggered inferences to be in flight together.
NextOverlap ==
  \/ \E p \in Points : PointerDown(p)
  \/ \E p \in Points : PointerMove(p)
  \/ PointerUp
  \/ Tick
  \/ DeactivateDrawAndPredict
  \/ \E id \in 1 .. MaxInfer : UpdatePredict(id)
  \/ Clear
  \/ FirstTrainClick
  \/ DataLoadDone(1)
  \/ FitDone(1)
  \/ SaveDone(1)

SpecOverlap == Init /\ [][NextOverlap]_vars

NextButtons ==
  \/ TrainClick
  \/ LoadClick
  \/ \E ty \in ModelTypes : SelectModelType(ty)
  \/ \E t \in TaskIds : DataLoadDone(t)
  \/ \E t \in TaskIds : LoadModelDone(t)
  \/ \E t \in TaskIds : FitDone(t)
  \/ \E t \in TaskIds : SaveDone(t)
  \/ PredictClick

SpecButtons == Init /\ [][NextButtons]_vars

\* ------------------------------------------------------------- claims
HandlerRan(result) == lastEvent = Event("deactivateDrawAndPredict", result)

\* C1 (as claimed): when the debounced handler, run once for a burst of
\* pointer-ups, calls model.predict, the raster it read is the input canvas
\* as it was at the last pointer-up of the burst.
C1_RasterAsOfLastPointerUp == HandlerRan("predict") => canvas = upCanvas

\* C2 (as claimed): the debounced handler does not call model.predict when
\* the input canvas holds no ink.
C2_NoPredictOnBlankCanvas == HandlerRan("predict") => canvas # {}

\* C3 (as claimed): model.predict is called only on a model whose loading
\* or training has completed.
C3_PredictOnlyOnReadyModel == lastEvent.result = "predict" => Ready(model)

\* The Load callback of task t went through its catch block.
FellBack(t) == tasks[t].kind = "Load" /\ modelStatus[t] # "absent"

\* C4 (as claimed): a Load callback whose tf.loadModel failed propagates no
\* error, and when it completes the module-level model is the model it
\* created, trained.
C4_LoadFallbackCompletes ==
  [][\A t \in TaskIds :
       /\ tasks[t].kind = "Load" => tasks'[t].pc # "failed"
       /\ (FellBack(t) /\ tasks[t].pc = "awaitSave" /\ tasks'[t].pc = "done")
            => (model' = [kind |-> "created", type |-> model'.type, owner |-> t]
                /\ modelStatus'[t] = "trained")]_vars

\* C5 (as claimed): the model stored under my-model-1 is a ConvNet and the
\* model stored under my-model-2 is a DenseNet.
C5_KeysHoldTheirArchitecture ==
  /\ storage["indexeddb://my-model-1"] \in {"none", "ConvNet"}
  /\ storage["indexeddb://my-model-2"] \in {"none", "DenseNet"}

\* C6 (as claimed): once a pointer-up has occurred and until the next
\* pointer-down, the drawing flag is false and a pointer-move appends no point.
C6_PointerUpEndsStroke ==
  ~pressed => (~drawing /\ (lastEvent.op = "draw" => lastEvent.result = "ignored"))

\* C7: a pointer-move handled while canvas_store.drawing is false leaves
\* strokes, drawing and the input canvas as they are, and does not throw.
C7_MoveIgnoredWhenNotDrawing ==
  [][((\E p \in Points : PointerMove(p)) /\ ~drawing)
       => (UNCHANGED <<strokes, drawing, canvas>> /\ lastEvent'.result = "ignored")]_vars

\* A pointer-move was ignored after the debounced handler had ended a drawn stroke.
C7_Witness ==
  /\ lastEvent = Event("draw", "ignored")
  /\ strokes # <<>>
  /\ canvas # {}
  /\ ~drawing

\* Every stroke of the session has been rendered onto the input canvas.
AllStrokesRendered == \A s \in DOMAIN strokes : Ink(StrokePath(strokes[s])) \subseteq canvas

\* C8 (as claimed): whenever the debounced handler reads the input canvas,
\* every recorded stroke has been rendered onto it.
C8_StrokesRenderedWhenRead ==
  (lastEvent.op = "deactivateDrawAndPredict" /\ lastEvent.result # "ignored")
    => AllStrokesRendered

IsPrefix(a, b) == Len(a) <= Len(b) /\ \A i \in DOMAIN a : a[i] = b[i]

\* Every stroke of old is still in new, at its place, with its points kept.
Preserved(old, new) ==
  /\ Len(old) <= Len(new)
  /\ \A s \in DOMAIN old : IsPrefix(old[s], new[s])

\* C9: no step but clear removes a stroke or a point of a stroke, and a
\* pointer-down appends exactly one new one-point stroke at the end.
C9_StrokesPersistUntilClear ==
  [][/\ Clear \/ Preserved(strokes, strokes')
     /\ (\E p \in Points : PointerDown(p))
          => \E p \in Points : strokes' = Append(strokes, <<p>>)]_vars

\* A pointer-down arrived while drawing was true, and the earlier stroke is kept.
C9_Witness ==
  /\ lastEvent = Event("activateDraw", "whileDrawing")
  /\ Len(strokes) >= 2

\* C10: right after clear, strokes is empty, drawing is false and the input
\* canvas has no ink.
C10_ClearResetsSession ==
  lastEvent.op = "clear" => (strokes = <<>> /\ ~drawing /\ canvas = {})

\* clear ran with the pointer down and a debounced pointer-up pending.
C10_Witness == lastEvent.op = "clear" /\ pressed /\ timer > 0

\* C11: in every reachable state every stroke of canvas_store.strokes holds at
\* least one point.
C11_EveryStrokeHasAPoint == \A s \in DOMAIN strokes : Len(strokes[s]) >= 1

\* A second stroke has just been started and holds its single point.
C11_Witness ==
  /\ lastEvent.op = "activateDraw"
  /\ Len(strokes) = 2
  /\ Len(strokes[2]) = 1

\* C12: the input vector has exactly 784 entries, entry k is the alpha byte of
\* pixel k (row-major) divided by 255 and lies in [0, 1]; an all-transparent
\* raster gives the all-zero vector and an all-opaque one the all-one vector.
PixelIds == 0 .. IMAGE_SIZE * IMAGE_SIZE - 1

Alpha(k) == pixels[4 * k + 4]

C12_InputIsAlphaOver255 ==
  input # <<>> =>
    /\ Len(input) = 784
    /\ \A k \in PixelIds :
         /\ input[k + 1].den = 255
         /\ input[k + 1].num = Alpha(k)
         /\ 0 <= input[k + 1].num
         /\ input[k + 1].num <= input[k + 1].den
    /\ (\A k \in PixelIds : Alpha(k) = 0) =>
         \A k \in PixelIds : input[k + 1].num = 0
    /\ (\A k \in PixelIds : Alpha(k) = 255) =>
         \A k \in PixelIds : input[k + 1].num = input[k + 1].den

\* A raster with transparent, half-transparent and opaque pixels was encoded.
C12_Witness ==
  /\ input # <<>>
  /\ \E k \in PixelIds : Alpha(k) = 0
  /\ \E k \in PixelIds : Alpha(k) = 128
  /\ \E k \in PixelIds : Alpha(k) = 255

\* C13: the body of deactivateDrawAndPredict (drawing set to false, model.predict
\* called) never runs between a pointer-down and its matching pointer-up, so
\* that no pointer-move of the gesture is left out of its stroke.
C13_NoPredictWhilePressed == HandlerRan("predict") => ~pressed

\* C14: right after draw has accepted a pointer-move, the input canvas holds
\* the rendering of every stroke of canvas_store.strokes, the point just
\* appended included, and nothing else: no ink from before the clearRect.
C14_CanvasIsTheRenderedStrokes ==
  lastEvent = Event("draw", "ok") =>
    /\ AllStrokesRendered
    /\ \A px \in canvas : \E s \in DOMAIN strokes : px \in Ink(StrokePath(strokes[s]))
    /\ strokes[Len(strokes)][Len(strokes[Len(strokes)])] \in canvas

\* draw has extended the second stroke of a session; the canvas holds ink of
\* the first stroke that the second does not cover.
C14_Witness ==
  /\ lastEvent = Event("draw", "ok")
  /\ Len(strokes) = 2
  /\ Ink(StrokePath(strokes[1])) \cap Ink(StrokePath(strokes[2])) = {}

\* C15: for a stroke of n >= 1 points draw emits moveTo(points[0]), then for
\* each i in 1 .. n-1 one quadratic curve whose control point is points[i-1]
\* and whose end is the midpoint of points[i-1] and points[i], then
\* lineTo(points[n-1]); no command holds an undefined point, so getMidpoint
\* is never given one and no index outside 0 .. n-1 is used.
ClaimedPath(points) ==
  LET n == Len(points)
  IN <<<<"M", points[1]>>>>
       \o [i \in 1 .. n - 1 |-> <<"Q", points[i], GetMidpoint(points[i], points[i + 1])>>]
       \o <<<<"L", points[n]>>>>

Defined(cmd) == \A k \in 2 .. Len(cmd) : cmd[k] # Undefined

C15_StrokePathAsClaimed ==
  \A s \in DOMAIN strokes :
    /\ StrokePath(strokes[s]) = ClaimedPath(strokes[s])
    /\ \A k \in DOMAIN StrokePath(strokes[s]) : Defined(StrokePath(strokes[s])[k])

\* draw has just stroked a stroke of three points that are not all the same.
C15_Witness ==
  /\ lastEvent = Event("draw", "ok")
  /\ \E s \in DOMAIN strokes : Len(strokes[s]) = 3 /\ strokes[s][1] # strokes[s][2]

\* C16: no asynchronous task has the module-level `model` or `data` reassigned
\* by another task between two of its await points before it reads the
\* variable again: a Train callback awaiting load() still finds its own
\* MnistData in `data`, and a callback awaiting model.fit or model.save still
\* finds the model it created in `model`.
C16_NoReassignmentWhileAwaiting ==
  \A t \in TaskIds :
    /\ (tasks[t].kind = "Train" /\ tasks[t].pc = "awaitData") => data = t
    /\ tasks[t].pc \in {"awaitFit", "awaitSave"} => model.owner = t

\* C17: in every reachable state canvas_store.drawing = true implies that
\* canvas_store.strokes is not empty, so draw always finds a last stroke to
\* push its point onto.
C17_DrawingImpliesAStroke == drawing => strokes # <<>>

\* draw has pushed a second point onto the only stroke of the session.
C17_Witness ==
  /\ drawing
  /\ lastEvent = Event("draw", "ok")
  /\ Len(strokes) = 1
  /\ Len(strokes[1]) = 2

\* C18: the debounced handler calls model.predict only if a pointer-down has
\* occurred since the later of the last clear and the last run of the handler
\* that reached model.predict; so a pointer-up without a pointer-down starts
\* no inference, and after clear none starts before a new pointer-down, even
\* when a debounced pointer-up was pending at the clear.
C18_PredictConsumesAPointerDown ==
  [][(DeactivateDrawAndPredict /\ nInfer' # nInfer) => downSince]_vars

\* The handler has called model.predict, which used up the pointer-down.
C18_Witness == HandlerRan("predict") /\ ~downSince /\ nInfer = 1

\* C19: when draw-triggered inferences overlap, ui.updatePredict is called in
\* the order the inferences were started: no inference still in flight is
\* older than the one displayed, and once all have been displayed the one
\* displayed last is the one started last.
C19_DisplayedInStartOrder ==
  /\ \A id \in inflight : displayed < id
  /\ (nInfer > 0 /\ inflight = {}) => displayed = nInfer

====
